---- MODULE Spec2Model ----
(***************************************************************************)
(* lmdbcols (include/lmdbcols.hpp): typed, zero-copy collections over an   *)
(* LMDB environment.  Values are identified with their object              *)
(* representation, a sequence of bytes of length sizeof(T).                *)
(***************************************************************************)
EXTENDS Integers, Sequences, FiniteSets, TLC

VARIABLES m_api, committed, txns, exp, cexp, written, last, pv

vars == <<m_api, committed, txns, exp, cexp, written, last, pv>>

\* ---------------------------------------------------------------- bounds
\* longest array handed to an array put
MaxLen == 2
\* transaction handles that may be live at once (SpecTxn)
MaxTxns == 2
\* largest sizeof(T) of the types the padding and span checks draw
MaxSize == 17
\* largest element count of a span the span checks draw
MaxCount == 3

\* ------------------------------------------------------- small utilities
Max(a, b) == IF a >= b THEN a ELSE b

RoundUp(n, a) == ((n + a - 1) \div a) * a

Zeros(n) == [i \in 1..n |-> 0]

\* A sample object of n bytes: first byte b, every later byte its own
\* (1-based) offset, so no byte of a sample is zero and a shifted or
\* truncated copy differs from the original.
Obj(b, n) == [i \in 1..n |-> IF i = 1 THEN b ELSE i]

\* Concatenation of a sequence of byte sequences
RECURSIVE Flatten(_)
Flatten(ss) == IF ss = <<>> THEN <<>> ELSE Head(ss) \o Flatten(Tail(ss))

\* ------------------------------------------------------------ C++ types
\* A type is its layout and the trait std::is_pod reads.
Type(s, a, p) == [size |-> s, align |-> a, pod |-> p]

char == Type(1, 1, TRUE)

int32_t == Type(4, 4, TRUE)

double == Type(8, 8, TRUE)

\* ---------------------------------------------------------- EightPadded
\* A variant aligning the class to 4 only; the padded size is sensitive
\* to it
EightPaddedAlign_Four(T) == Max(4, T.align)

\* alignas(8) on the class: its alignment is the stricter of 8 and T's
EightPaddedAlign(T) == Max(8, T.align)

\* sizeof(EightPadded<T>): one member _data at offset 0, the class size
\* rounded up to the class alignment
EightPaddedSize(T) == RoundUp(T.size, EightPaddedAlign(T))

\* EightPadded<T> as a type: POD exactly when T is (defaulted default
\* constructor, a single non-static member)
EightPaddedType(T) == Type(EightPaddedSize(T), EightPaddedAlign(T), T.pod)

\* A variant of the constructor that leaves the storage as it found it
\* before assigning _data; the zero padding is sensitive to it
EightPadded_NoMemset(T, d, mem) ==
    [i \in 1..Len(mem) |-> IF i <= T.size THEN d[i] ELSE mem[i]]

\* explicit EightPadded(T d): mem is the object's storage before the
\* constructor body runs (indeterminate bytes)
EightPadded(T, d, mem) ==
    LET cleared == [i \in 1..Len(mem) |-> 0]
    IN  [i \in 1..Len(mem) |-> IF i <= T.size THEN d[i] ELSE cleared[i]]

\* The storage of a fresh EightPadded<T>, every byte holding g
Storage(T, g) == [i \in 1..EightPaddedSize(T) |-> g]

\* get() / cget() / operator*: the member _data, at offset 0
cget(T, obj) == SubSeq(obj, 1, T.size)

\* is_valid_keyval_type<T>::value
is_valid_keyval_type(T) == T.pod /\ ~(T.size % 8 # 0)

\* ------------------------------------------------------------- LmdbSpan
\* A span is (m_data, m_size) over elements of esz bytes.  m_data is an
\* address: an offset into mem, the memory it points into, whose base
\* is aligned for every type.
Span(mem, ptr, count, esz) == [mem |-> mem, m_data |-> ptr, m_size |-> count, esz |-> esz]

\* is_aligned_for<TTarg>(ptr)
is_aligned_for(T, ptr) == ~(ptr % T.align # 0)

AssertFail == [ok |-> FALSE]

\* LmdbSpan<T>::asSpan<TNew>()
asSpan(sp, TNew) ==
    IF (sp.esz * sp.m_size) % TNew.size # 0 THEN AssertFail
    ELSE IF ~is_aligned_for(TNew, sp.m_data) THEN AssertFail
    ELSE [ok |-> TRUE, sp |-> Span(sp.mem, sp.m_data, sp.m_size \div TNew.size, TNew.size)]

\* LmdbSpan<T>(MDB_val mv)
LmdbSpan(T, mv) ==
    IF mv.mv_size % T.size # 0 THEN AssertFail
    ELSE IF ~is_aligned_for(T, mv.mv_data) THEN AssertFail
    ELSE [ok |-> TRUE, sp |-> Span(mv.mem, mv.mv_data, mv.mv_size \div T.size, T.size)]

\* A variant of asType whose size assertion accepts a span longer than
\* one TNew; the exact-size reading of a stored value is sensitive to it
asType_AtLeast(sp, TNew) ==
    IF TNew.size > sp.esz * sp.m_size THEN AssertFail
    ELSE IF ~is_aligned_for(TNew, sp.m_data) THEN AssertFail
    ELSE [ok |-> TRUE, obj |-> SubSeq(sp.mem, sp.m_data + 1, sp.m_data + TNew.size)]

\* LmdbSpan<T>::asType<TNew>(): the object of type TNew at begin()
asType(sp, TNew) ==
    IF TNew.size # sp.esz * sp.m_size THEN AssertFail
    ELSE IF ~is_aligned_for(TNew, sp.m_data) THEN AssertFail
    ELSE [ok |-> TRUE, obj |-> SubSeq(sp.mem, sp.m_data + 1, sp.m_data + TNew.size)]

\* operator[](n) on a span, n < m_size: the n-th element's bytes
At(sp, n) == SubSeq(sp.mem, sp.m_data + n * sp.esz + 1, sp.m_data + (n + 1) * sp.esz)

unsigned_char == Type(1, 1, TRUE)

\* size_t values are written as their two's complement representative: n
\* for a value n near 0, -k for the value SIZE_MAX + 1 - k near the top of
\* the range.  Addition modulo SIZE_MAX + 1 is then addition of
\* representatives, and the unsigned order puts every negative
\* representative above every non-negative one
size_t_less(a, b) == IF (a < 0) = (b < 0) THEN a < b ELSE b < 0

size_t_leq(a, b) == a = b \/ size_t_less(a, b)

\* LmdbSpan<T>::subSpan(offset, count): begin() + offset moves the
\* pointer by offset elements, modulo the address space
subSpan(sp, offset, count) ==
    IF ~size_t_leq(offset + count, sp.m_size) THEN AssertFail
    ELSE [ok |-> TRUE, sp |-> Span(sp.mem, sp.m_data + offset * sp.esz, count, sp.esz)]

\* LmdbSpan<T>::operator[](n)
operator_index(sp, n) ==
    IF ~size_t_less(n, sp.m_size) THEN AssertFail
    ELSE [ok |-> TRUE, obj |-> At(sp, n)]

\* ------------------------------------------------ LMDB (the collaborator)
MDB_SUCCESS == 0

MDB_KEYEXIST == -30799

MDB_NOTFOUND == -30798

MDB_PAGE_NOTFOUND == -30797

MDB_MAP_FULL == -30792

EACCES == 13

\* MDB_val {mv_size, mv_data}: mv_data is an offset into the memory mem
MDB_val(size, mem, ptr) == [mv_size |-> size, mem |-> mem, mv_data |-> ptr]

\* The mv_size bytes an MDB_val designates
Bytes(mv) == SubSeq(mv.mem, mv.mv_data + 1, mv.mv_data + mv.mv_size)

\* The environment: whether the named collection exists, whether it was
\* created to hold several values per key, and its entries
NoEnv == [exists |-> FALSE, dupsort |-> FALSE, data |-> {}]

NoTxn == [st |-> "none", rdonly |-> FALSE, exists |-> FALSE, dupsort |-> FALSE, data |-> {}]

\* mdb_txn_begin(env, parent = nullptr, flags): a snapshot of the
\* environment's committed state
mdb_txn_begin(env, flags) ==
    [st |-> "live", rdonly |-> ("MDB_RDONLY" \in flags),
     exists |-> env.exists, dupsort |-> env.dupsort, data |-> env.data]

\* mdb_dbi_open(txn, name, flags) for the one named collection: a
\* collection that exists keeps the flags it was created with
mdb_dbi_open(txn, flags) ==
    IF txn.exists THEN [rc |-> MDB_SUCCESS, txn |-> txn]
    ELSE IF "MDB_CREATE" \notin flags THEN [rc |-> MDB_NOTFOUND, txn |-> txn]
    ELSE IF txn.rdonly THEN [rc |-> EACCES, txn |-> txn]
    ELSE [rc |-> MDB_SUCCESS,
          txn |-> [txn EXCEPT !.exists = TRUE, !.dupsort = ("MDB_DUPSORT" \in flags)]]

\* The order of byte strings LMDB sorts the values of one key by
RECURSIVE BytesLess(_, _)
BytesLess(a, b) ==
    IF b = <<>> THEN FALSE
    ELSE IF a = <<>> THEN TRUE
    ELSE IF Head(a) # Head(b) THEN Head(a) < Head(b)
    ELSE BytesLess(Tail(a), Tail(b))

\* mdb_put(txn, dbi, key, data, flags).  fault is MDB_SUCCESS or the
\* failure the environment reports for this call (map full), which then
\* stores nothing.  In a collection created with MDB_DUPSORT the pair is
\* added beside the key's other values; otherwise it replaces the entry
mdb_put(txn, key, data, flags, fault) ==
    IF txn.rdonly THEN [rc |-> EACCES, txn |-> txn]
    ELSE IF fault # MDB_SUCCESS THEN [rc |-> fault, txn |-> txn]
    ELSE IF "MDB_NOOVERWRITE" \in flags /\ \E e \in txn.data : e.key = Bytes(key)
         THEN [rc |-> MDB_KEYEXIST, txn |-> txn]
    ELSE [rc |-> MDB_SUCCESS,
          txn |-> [txn EXCEPT !.data =
                      (IF txn.dupsort THEN txn.data ELSE {e \in txn.data : e.key # Bytes(key)})
                         \cup {[key |-> Bytes(key), val |-> Bytes(data)]}]]

\* mdb_get(txn, dbi, key, &data).  fault as for mdb_put (a page that
\* cannot be read).  Of several values under the key it returns the first
\* in sort order
mdb_get(txn, key, fault) ==
    IF fault # MDB_SUCCESS
         THEN [rc |-> fault, txn |-> txn, data |-> MDB_val(0, <<>>, 0)]
    ELSE IF \E e \in txn.data : e.key = Bytes(key)
         THEN LET under == {x \in txn.data : x.key = Bytes(key)}
                  e == CHOOSE x \in under : \A y \in under \ {x} : BytesLess(x.val, y.val)
              IN  [rc |-> MDB_SUCCESS, txn |-> txn, data |-> MDB_val(Len(e.val), e.val, 0)]
    ELSE [rc |-> MDB_NOTFOUND, txn |-> txn, data |-> MDB_val(0, <<>>, 0)]

\* mdb_txn_commit: the environment after the transaction ended by commit
mdb_txn_commit(env, txn) ==
    IF txn.rdonly THEN env
    ELSE [exists |-> txn.exists, dupsort |-> txn.dupsort, data |-> txn.data]

\* ------------------------------------------------------------ DbiWrapper
default_dbiflags == {"MDB_CREATE"}

\* m_dbiflags of the DbiWrapper inside the map in use
m_dbiflags == m_api.flags

NoVal == <<>>

Ok(v) == [kind |-> "ok", code |-> MDB_SUCCESS, val |-> v]

\* lmdb::error::raise(origin, rc): an exception carrying rc
Raise(rc) == [kind |-> "raise", code |-> rc, val |-> NoVal]

\* a failed assert() or a trapped precondition: the process stops
Fatal == [kind |-> "abort", code |-> MDB_SUCCESS, val |-> NoVal]

\* DbiWrapper::dbi(txn)
dbi(txn) == mdb_dbi_open(txn, m_dbiflags)

\* The flags argument DbiWrapper::put and putArray hand to mdb_put
PutFlags == {}

\* A variant of put whose value descriptor is built from the key; the
\* single-value round trip is sensitive to it
DbiWrapper_put_KeyAsVal(txn, key, val, fault) ==
    LET mkey == MDB_val(Len(key), key, 0)
        mval == MDB_val(Len(key), key, 0)
        d == mdb_dbi_open(txn, m_dbiflags)
    IN  IF d.rc # MDB_SUCCESS
        THEN [res |-> Raise(d.rc), txn |-> d.txn, rcs |-> <<d.rc>>]
        ELSE LET p == mdb_put(d.txn, mkey, mval, {}, fault)
             IN  [res |-> IF p.rc # MDB_SUCCESS THEN Raise(p.rc) ELSE Ok(NoVal),
                  txn |-> p.txn, rcs |-> <<d.rc, p.rc>>]

\* A variant of putArray whose value descriptor has the element count as
\* its byte length; the array round trip is sensitive to it
DbiWrapper_putArray_CountAsSize(txn, key, dat, esz, count, fault) ==
    LET mkey == MDB_val(Len(key), key, 0)
        mval == MDB_val(count, dat, 0)
        d == mdb_dbi_open(txn, m_dbiflags)
    IN  IF d.rc # MDB_SUCCESS
        THEN [res |-> Raise(d.rc), txn |-> d.txn, rcs |-> <<d.rc>>]
        ELSE LET p == mdb_put(d.txn, mkey, mval, {}, fault)
             IN  [res |-> IF p.rc # MDB_SUCCESS THEN Raise(p.rc) ELSE Ok(NoVal),
                  txn |-> p.txn, rcs |-> <<d.rc, p.rc>>]

\* DbiWrapper::put<K, V>(txn, key, val)
DbiWrapper_put(txn, key, val, fault) ==
    LET mkey == MDB_val(Len(key), key, 0)
        mval == MDB_val(Len(val), val, 0)
        d == dbi(txn)
    IN  IF d.rc # MDB_SUCCESS
        THEN [res |-> Raise(d.rc), txn |-> d.txn, rcs |-> <<d.rc>>]
        ELSE LET p == mdb_put(d.txn, mkey, mval, PutFlags, fault)
             IN  [res |-> IF p.rc # MDB_SUCCESS THEN Raise(p.rc) ELSE Ok(NoVal),
                  txn |-> p.txn, rcs |-> <<d.rc, p.rc>>]

\* DbiWrapper::putArray<K, VElem>(txn, key, dat, count): dat is the
\* memory the pointer designates, esz is sizeof(dat[0])
DbiWrapper_putArray(txn, key, dat, esz, count, fault) ==
    LET mkey == MDB_val(Len(key), key, 0)
        mval == MDB_val(esz * count, dat, 0)
        d == dbi(txn)
    IN  IF d.rc # MDB_SUCCESS
        THEN [res |-> Raise(d.rc), txn |-> d.txn, rcs |-> <<d.rc>>]
        ELSE LET p == mdb_put(d.txn, mkey, mval, PutFlags, fault)
             IN  [res |-> IF p.rc # MDB_SUCCESS THEN Raise(p.rc) ELSE Ok(NoVal),
                  txn |-> p.txn, rcs |-> <<d.rc, p.rc>>]

\* DbiWrapper::get<K>(txn, key): a span of unsigned char
DbiWrapper_get(txn, key, fault) ==
    LET mkey == MDB_val(Len(key), key, 0)
        d == dbi(txn)
    IN  IF d.rc # MDB_SUCCESS
        THEN [res |-> Raise(d.rc), txn |-> d.txn, rcs |-> <<d.rc>>]
        ELSE LET g == mdb_get(d.txn, mkey, fault)
                 s == LmdbSpan(unsigned_char, g.data)
             IN  [res |-> IF g.rc # MDB_SUCCESS THEN Raise(g.rc)
                          ELSE IF ~s.ok THEN Fatal ELSE Ok(s.sp),
                  txn |-> g.txn, rcs |-> <<d.rc, g.rc>>]

\* A variant of exists that answers false for every code but success; the
\* propagation of backend failures is sensitive to it
DbiWrapper_exists_OnlySuccess(txn, key, fault) ==
    LET mkey == MDB_val(Len(key), key, 0)
        d == dbi(txn)
    IN  IF d.rc # MDB_SUCCESS
        THEN [res |-> Raise(d.rc), txn |-> d.txn, rcs |-> <<d.rc>>]
        ELSE LET g == mdb_get(d.txn, mkey, fault)
                 myDbi == dbi(g.txn)
             IN  IF myDbi.rc # MDB_SUCCESS
                 THEN [res |-> Raise(myDbi.rc), txn |-> myDbi.txn, rcs |-> <<d.rc, g.rc, myDbi.rc>>]
                 ELSE [res |-> Ok(g.rc = 0),
                       txn |-> myDbi.txn, rcs |-> <<d.rc, g.rc, myDbi.rc>>]

\* DbiWrapper::exists<K>(txn, key)
DbiWrapper_exists(txn, key, fault) ==
    LET mkey == MDB_val(Len(key), key, 0)
        d == dbi(txn)
    IN  IF d.rc # MDB_SUCCESS
        THEN [res |-> Raise(d.rc), txn |-> d.txn, rcs |-> <<d.rc>>]
        ELSE LET g == mdb_get(d.txn, mkey, fault)
                 myDbi == dbi(g.txn)
             IN  IF myDbi.rc # MDB_SUCCESS
                 THEN [res |-> Raise(myDbi.rc), txn |-> myDbi.txn, rcs |-> <<d.rc, g.rc, myDbi.rc>>]
                 ELSE [res |-> IF g.rc = MDB_NOTFOUND THEN Ok(FALSE)
                               ELSE IF g.rc = 0 THEN Ok(TRUE)
                               ELSE Raise(g.rc),
                       txn |-> myDbi.txn, rcs |-> <<d.rc, g.rc, myDbi.rc>>]

\* ------------------------------------------------------------ typed maps
\* MapDB_Pod_Pod<TAllKey, TAllVal>::put
MapDB_Pod_Pod_put(txn, key, val, fault) == DbiWrapper_put(txn, key, val, fault)

\* MapDB_Pod_Pod<TAllKey, TAllVal>::get
MapDB_Pod_Pod_get(TAllVal, txn, key, fault) ==
    LET r == DbiWrapper_get(txn, key, fault)
    IN  IF r.res.kind # "ok" THEN r
        ELSE LET a == asType(r.res.val, TAllVal)
             IN  [r EXCEPT !.res = IF a.ok THEN Ok(a.obj) ELSE Fatal]

\* MapDB_AutoPadded_Pod_Pod<TKey, TVal>::put.  g fills the storage of the
\* two temporaries PadKey{key}, PadVal{val} before they are constructed
MapDB_AutoPadded_Pod_Pod_put(TKey, TVal, txn, key, val, g, fault) ==
    MapDB_Pod_Pod_put(txn, EightPadded(TKey, key, Storage(TKey, g)),
                      EightPadded(TVal, val, Storage(TVal, g)), fault)

\* MapDB_AutoPadded_Pod_Pod<TKey, TVal>::get
MapDB_AutoPadded_Pod_Pod_get(TKey, TVal, txn, key, g, fault) ==
    LET r == MapDB_Pod_Pod_get(EightPaddedType(TVal), txn,
                               EightPadded(TKey, key, Storage(TKey, g)), fault)
    IN  IF r.res.kind # "ok" THEN r ELSE [r EXCEPT !.res = Ok(cget(TVal, r.res.val))]

\* MapDB_Pod_PodArray<TAllKey, TAllValElem>::get
MapDB_Pod_PodArray_get(TAllValElem, txn, key, fault) ==
    LET r == DbiWrapper_get(txn, key, fault)
    IN  IF r.res.kind # "ok" THEN r
        ELSE LET a == asSpan(r.res.val, TAllValElem)
             IN  [r EXCEPT !.res = IF a.ok THEN Ok(a.sp) ELSE Fatal]

\* MapDB_Pod_PodArray<TAllKey, TAllValElem>::put: data is the sequence of
\* elements the pointer designates
MapDB_Pod_PodArray_put(TAllValElem, txn, key, data, count, fault) ==
    DbiWrapper_putArray(txn, key, Flatten(data), TAllValElem.size, count, fault)

\* MapDB_Pod_PodArray<TAllKey, TAllValElem>::exists
MapDB_Pod_PodArray_exists(txn, key, fault) == DbiWrapper_exists(txn, key, fault)

\* What &toPut[0] does on an empty vector (operator[] outside its
\* precondition): the build yields the data pointer, or traps
EmptyIndex == {"pointer", "trap"}

\* MapDB_AutoPadded_Pod_PodArray<TKey, TValElem>::put(txn, key, range)
MapDB_AutoPadded_Pod_PodArray_put(TKey, TValElem, txn, key, range, g, ub, fault) ==
    LET toPut == [i \in 1..Len(range) |-> EightPadded(TValElem, range[i], Storage(TValElem, g))]
    IN  IF Len(toPut) = 0 /\ ub = "trap"
        THEN [res |-> Fatal, txn |-> txn, rcs |-> <<>>]
        ELSE MapDB_Pod_PodArray_put(EightPaddedType(TValElem), txn,
                                    EightPadded(TKey, key, Storage(TKey, g)),
                                    toPut, Len(toPut), fault)

\* MapDB_AutoPadded_Pod_PodArray<TKey, TValElem>::get
MapDB_AutoPadded_Pod_PodArray_get(TKey, TValElem, txn, key, g, fault) ==
    MapDB_Pod_PodArray_get(EightPaddedType(TValElem), txn,
                           EightPadded(TKey, key, Storage(TKey, g)), fault)

\* ------------------------------------------------------------ the program
\* The typed map the program constructed over the collection
\* A typed map constructed with (dbName, dbiFlags)
Map(api, K, V, dbiFlags) == [api |-> api, K |-> K, V |-> V, flags |-> dbiFlags]

\* The four maps constructed with a name alone: the DbiWrapper takes its
\* default flags
Instantiations ==
    { Map("MapDB_Pod_Pod", double, double, default_dbiflags),
      Map("MapDB_AutoPadded_Pod_Pod", int32_t, char, default_dbiflags),
      Map("MapDB_Pod_PodArray", double, double, default_dbiflags),
      Map("MapDB_AutoPadded_Pod_PodArray", int32_t, char, default_dbiflags) }

SingleValued == {i \in Instantiations : i.api \in {"MapDB_Pod_Pod", "MapDB_AutoPadded_Pod_Pod"}}

\* Flags a caller hands to the two-argument constructors
DbiFlagSets == {{"MDB_CREATE"}, {"MDB_CREATE", "MDB_DUPSORT"}, {}}

\* The single-valued maps constructed with a name and flags
FlagInstantiations == {Map(i.api, i.K, i.V, f) : i \in SingleValued, f \in DbiFlagSets}

\* Keys and values the program passes: the self test's 123 and 22, 'a' and 'b'
KeySamples(K) == {Obj(123, K.size), Obj(22, K.size)}

ValSamples(V) == {Obj(97, V.size), Obj(98, V.size)}

\* Arrays the program passes: of every length 0..MaxLen, alternating the
\* two sample elements from either one first, so that order is observable
Alternating(a, b, n) == [i \in 1..n |-> IF i % 2 = 1 THEN a ELSE b]

ArraySamples(V) ==
    {Alternating(a, b, n) : <<a, b>> \in {<<Obj(97, V.size), Obj(98, V.size)>>,
                                          <<Obj(98, V.size), Obj(97, V.size)>>},
                            n \in 0..MaxLen}

\* Indeterminate bytes of a temporary's storage
Garbage == {204}

PutFaults(inject) == IF inject THEN {MDB_SUCCESS, MDB_MAP_FULL} ELSE {MDB_SUCCESS}

GetFaults(inject) == IF inject THEN {MDB_SUCCESS, MDB_PAGE_NOTFOUND} ELSE {MDB_SUCCESS}

Slots == 1..MaxTxns

SerialSlots == {1}

Idle == [op |-> "none", t |-> 0, key |-> NoVal, val |-> NoVal, had |-> "absent",
         res |-> Ok(NoVal), rcs |-> <<>>]

\* The process runs until an assertion fails
Running == last.res.kind # "abort"

Live(t) == txns[t].st = "live"

\* What the program has put under key, as it should read in a view
Expect(view, key) == {e.val : e \in {x \in view : x.key = key}}

\* How a value about to be put relates to what the view holds under key
Had(view, key, val) ==
    IF Expect(view, key) = {} THEN "absent"
    ELSE IF Expect(view, key) = {val} THEN "same" ELSE "other"

Upsert(view, key, val) == {e \in view : e.key # key} \cup {[key |-> key, val |-> val]}

\* One call of a map operation in transaction t with result r
Call(op, t, key, val, r, isPut) ==
    /\ txns' = [txns EXCEPT ![t] = r.txn]
    /\ last' = [op |-> op, t |-> t, key |-> key, val |-> val, had |-> Had(exp[t], key, val),
                res |-> r.res, rcs |-> r.rcs]
    /\ IF isPut /\ r.res.kind = "ok"
       THEN exp' = [exp EXCEPT ![t] = Upsert(@, key, val)] /\ written' = written \cup {key}
       ELSE UNCHANGED <<exp, written>>
    /\ UNCHANGED <<m_api, committed, cexp, pv>>

\* lmdb::txn::begin(m_env, nullptr, flags) into the handle t: a write
\* transaction waits while another one is live
begin(op, t, flags) ==
    /\ Running /\ ~Live(t)
    /\ "MDB_RDONLY" \in flags \/ \A u \in Slots : Live(u) => txns[u].rdonly
    /\ txns' = [txns EXCEPT ![t] = mdb_txn_begin(committed, flags)]
    /\ exp' = [exp EXCEPT ![t] = cexp]
    /\ last' = [Idle EXCEPT !.op = op, !.t = t]
    /\ UNCHANGED <<m_api, committed, cexp, written, pv>>

\* DatabaseEnvironment::openWriteTxn()
openWriteTxn(t) == begin("openWriteTxn", t, {})

\* A variant of openReadTxn that passes no flags; isolation's read-only
\* transactions are sensitive to it
openReadTxn_NoFlags(t) == begin("openReadTxn", t, {})

\* DatabaseEnvironment::openReadTxn()
openReadTxn(t) == begin("openReadTxn", t, {"MDB_RDONLY"})

\* txn.commit()
commit(t) ==
    /\ Running /\ Live(t)
    /\ committed' = mdb_txn_commit(committed, txns[t])
    /\ cexp' = IF txns[t].rdonly THEN cexp ELSE exp[t]
    /\ txns' = [txns EXCEPT ![t] = NoTxn]
    /\ exp' = [exp EXCEPT ![t] = {}]
    /\ last' = [Idle EXCEPT !.op = "commit", !.t = t]
    /\ UNCHANGED <<m_api, written, pv>>

\* the transaction handle goes out of scope uncommitted: it aborts
abort(t) ==
    /\ Running /\ Live(t)
    /\ txns' = [txns EXCEPT ![t] = NoTxn]
    /\ exp' = [exp EXCEPT ![t] = {}]
    /\ last' = [Idle EXCEPT !.op = "abort", !.t = t]
    /\ UNCHANGED <<m_api, committed, cexp, written, pv>>

Pod_Pod_put(t, inject) ==
    /\ Running /\ Live(t) /\ m_api.api = "MapDB_Pod_Pod"
    /\ \E key \in KeySamples(m_api.K), val \in ValSamples(m_api.V), f \in PutFaults(inject) :
          Call("put", t, key, val, MapDB_Pod_Pod_put(txns[t], key, val, f), TRUE)

Pod_Pod_get(t, inject) ==
    /\ Running /\ Live(t) /\ m_api.api = "MapDB_Pod_Pod"
    /\ \E key \in KeySamples(m_api.K), f \in GetFaults(inject) :
          Call("get", t, key, NoVal, MapDB_Pod_Pod_get(m_api.V, txns[t], key, f), FALSE)

AutoPadded_Pod_Pod_put(t, inject) ==
    /\ Running /\ Live(t) /\ m_api.api = "MapDB_AutoPadded_Pod_Pod"
    /\ \E key \in KeySamples(m_api.K), val \in ValSamples(m_api.V), g \in Garbage,
          f \in PutFaults(inject) :
          Call("put", t, key, val,
               MapDB_AutoPadded_Pod_Pod_put(m_api.K, m_api.V, txns[t], key, val, g, f), TRUE)

AutoPadded_Pod_Pod_get(t, inject) ==
    /\ Running /\ Live(t) /\ m_api.api = "MapDB_AutoPadded_Pod_Pod"
    /\ \E key \in KeySamples(m_api.K), g \in Garbage, f \in GetFaults(inject) :
          Call("get", t, key, NoVal,
               MapDB_AutoPadded_Pod_Pod_get(m_api.K, m_api.V, txns[t], key, g, f), FALSE)

Pod_PodArray_put(t, inject) ==
    /\ Running /\ Live(t) /\ m_api.api = "MapDB_Pod_PodArray"
    /\ \E key \in KeySamples(m_api.K), data \in ArraySamples(m_api.V), f \in PutFaults(inject) :
          Call("put", t, key, data,
               MapDB_Pod_PodArray_put(m_api.V, txns[t], key, data, Len(data), f), TRUE)

Pod_PodArray_get(t, inject) ==
    /\ Running /\ Live(t) /\ m_api.api = "MapDB_Pod_PodArray"
    /\ \E key \in KeySamples(m_api.K), f \in GetFaults(inject) :
          Call("get", t, key, NoVal, MapDB_Pod_PodArray_get(m_api.V, txns[t], key, f), FALSE)

Pod_PodArray_exists(t, inject) ==
    /\ Running /\ Live(t) /\ m_api.api = "MapDB_Pod_PodArray"
    /\ \E key \in KeySamples(m_api.K), f \in GetFaults(inject) :
          Call("exists", t, key, NoVal, MapDB_Pod_PodArray_exists(txns[t], key, f), FALSE)

AutoPadded_Pod_PodArray_put(t, inject) ==
    /\ Running /\ Live(t) /\ m_api.api = "MapDB_AutoPadded_Pod_PodArray"
    /\ \E key \in KeySamples(m_api.K), range \in ArraySamples(m_api.V), g \in Garbage,
          f \in PutFaults(inject) :
          \E ub \in (IF range = <<>> THEN EmptyIndex ELSE {"pointer"}) :
             Call("put", t, key, range,
                  MapDB_AutoPadded_Pod_PodArray_put(m_api.K, m_api.V, txns[t], key, range, g, ub, f),
                  TRUE)

AutoPadded_Pod_PodArray_get(t, inject) ==
    /\ Running /\ Live(t) /\ m_api.api = "MapDB_AutoPadded_Pod_PodArray"
    /\ \E key \in KeySamples(m_api.K), g \in Garbage, f \in GetFaults(inject) :
          Call("get", t, key, NoVal,
               MapDB_AutoPadded_Pod_PodArray_get(m_api.K, m_api.V, txns[t], key, g, f), FALSE)

\* One call in transaction t of a put through a second map constructed
\* with the same collection name: what the map in use has put under the
\* key is no longer what the collection holds
SharedCall(t, key, data, r) ==
    /\ txns' = [txns EXCEPT ![t] = r.txn]
    /\ last' = [Idle EXCEPT !.op = "putArray", !.t = t, !.key = key, !.val = data,
                            !.res = r.res, !.rcs = r.rcs]
    /\ IF r.res.kind = "ok"
       THEN /\ exp' = [exp EXCEPT ![t] = {e \in @ : e.key # key}]
            /\ written' = written \cup {key}
       ELSE UNCHANGED <<exp, written>>
    /\ UNCHANGED <<m_api, committed, cexp, pv>>

\* A second map, MapDB_Pod_PodArray<K, V>, constructed with the name of
\* the MapDB_Pod_Pod<K, V> in use, puts an array into the same collection
Shared_Pod_PodArray_put(t) ==
    /\ Running /\ Live(t) /\ m_api.api = "MapDB_Pod_Pod"
    /\ \E key \in KeySamples(m_api.K), data \in ArraySamples(m_api.V) :
          SharedCall(t, key, data,
               MapDB_Pod_PodArray_put(m_api.V, txns[t], key, data, Len(data), MDB_SUCCESS))

\* The same with MapDB_AutoPadded_Pod_PodArray<K, V> beside the
\* MapDB_AutoPadded_Pod_Pod<K, V> in use
Shared_AutoPadded_Pod_PodArray_put(t) ==
    /\ Running /\ Live(t) /\ m_api.api = "MapDB_AutoPadded_Pod_Pod"
    /\ \E key \in KeySamples(m_api.K), range \in ArraySamples(m_api.V), g \in Garbage :
          \E ub \in (IF range = <<>> THEN EmptyIndex ELSE {"pointer"}) :
             SharedCall(t, key, range,
                  MapDB_AutoPadded_Pod_PodArray_put(m_api.K, m_api.V, txns[t], key, range, g, ub,
                                                    MDB_SUCCESS))

NoPure == [op |-> "none"]

InitDb ==
    /\ committed = NoEnv
    /\ txns = [t \in Slots |-> NoTxn]
    /\ exp = [t \in Slots |-> {}]
    /\ cexp = {}
    /\ written = {}
    /\ last = Idle

\* A program that holds one transaction at a time, as the self test does
Init == m_api \in Instantiations /\ InitDb /\ pv = NoPure

NoneLive == \A u \in Slots : ~Live(u)

Next ==
    \/ \E t \in SerialSlots : NoneLive /\ openWriteTxn(t)
    \/ \E t \in SerialSlots : NoneLive /\ openReadTxn(t)
    \/ \E t \in SerialSlots : commit(t)
    \/ \E t \in SerialSlots : abort(t)
    \/ \E t \in SerialSlots : Pod_Pod_put(t, FALSE)
    \/ \E t \in SerialSlots : Pod_Pod_get(t, FALSE)
    \/ \E t \in SerialSlots : AutoPadded_Pod_Pod_put(t, FALSE)
    \/ \E t \in SerialSlots : AutoPadded_Pod_Pod_get(t, FALSE)
    \/ \E t \in SerialSlots : Pod_PodArray_put(t, FALSE)
    \/ \E t \in SerialSlots : Pod_PodArray_get(t, FALSE)
    \/ \E t \in SerialSlots : Pod_PodArray_exists(t, FALSE)
    \/ \E t \in SerialSlots : AutoPadded_Pod_PodArray_put(t, FALSE)
    \/ \E t \in SerialSlots : AutoPadded_Pod_PodArray_get(t, FALSE)

Spec == Init /\ [][Next]_vars

\* The same program with a single-valued map constructed from a name and
\* flags
InitFlags == m_api \in FlagInstantiations /\ InitDb /\ pv = NoPure

NextFlags ==
    \/ \E t \in SerialSlots : NoneLive /\ openWriteTxn(t)
    \/ \E t \in SerialSlots : NoneLive /\ openReadTxn(t)
    \/ \E t \in SerialSlots : commit(t)
    \/ \E t \in SerialSlots : abort(t)
    \/ \E t \in SerialSlots : Pod_Pod_put(t, FALSE)
    \/ \E t \in SerialSlots : Pod_Pod_get(t, FALSE)
    \/ \E t \in SerialSlots : AutoPadded_Pod_Pod_put(t, FALSE)
    \/ \E t \in SerialSlots : AutoPadded_Pod_Pod_get(t, FALSE)

SpecFlags == InitFlags /\ [][NextFlags]_vars

\* A single-valued map and an array map constructed with one collection
\* name, used through one transaction at a time
InitShared == m_api \in SingleValued /\ InitDb /\ pv = NoPure

NextShared ==
    \/ \E t \in SerialSlots : NoneLive /\ openWriteTxn(t)
    \/ \E t \in SerialSlots : NoneLive /\ openReadTxn(t)
    \/ \E t \in SerialSlots : commit(t)
    \/ \E t \in SerialSlots : abort(t)
    \/ \E t \in SerialSlots : Pod_Pod_put(t, FALSE)
    \/ \E t \in SerialSlots : Pod_Pod_get(t, FALSE)
    \/ \E t \in SerialSlots : AutoPadded_Pod_Pod_put(t, FALSE)
    \/ \E t \in SerialSlots : AutoPadded_Pod_Pod_get(t, FALSE)
    \/ \E t \in SerialSlots : Shared_Pod_PodArray_put(t)
    \/ \E t \in SerialSlots : Shared_AutoPadded_Pod_PodArray_put(t)

SpecShared == InitShared /\ [][NextShared]_vars

\* ------------------------------------------- padding and views in isolation
dbvars == <<m_api, committed, txns, exp, cexp, written, last>>

Alignments == {1, 2, 4, 8, 16}

\* The types EightPadded<T> is instantiated with: every size up to MaxSize
\* at every alignment that divides it
PadTypes ==
    {Type(s, a, p) : s \in 1..MaxSize, a \in Alignments, p \in BOOLEAN} \ 
    {T \in {Type(s, a, p) : s \in 1..MaxSize, a \in Alignments, p \in BOOLEAN} :
        T.size % T.align # 0}

\* EightPadded<T> x{d}, constructed in storage that held garbage
Padded_construct ==
    /\ \E T \in PadTypes, b \in {97, 99}, g \in Garbage :
          pv' = [op |-> "EightPadded", T |-> T, d |-> Obj(b, T.size),
                 obj |-> EightPadded(T, Obj(b, T.size), Storage(T, g)),
                 sizeof |-> EightPaddedSize(T), out |-> NoVal]
    /\ UNCHANGED dbvars

\* x.get(), x.cget(), *x: all three return _data
Padded_cget ==
    /\ pv.op = "EightPadded"
    /\ pv' = [pv EXCEPT !.op = "cget", !.out = cget(pv.T, pv.obj)]
    /\ UNCHANGED dbvars

\* The element types of the views taken in isolation
SpanTypes == {char, Type(2, 2, TRUE), Type(3, 1, TRUE), int32_t, double, Type(12, 4, TRUE)}

Pointers == {0, 4, 8}

\* LmdbSpan<T>{ptr, count} over memory holding count elements at ptr
Span_construct ==
    /\ \E T \in SpanTypes, n \in 0..MaxCount, ptr \in Pointers :
          /\ is_aligned_for(T, ptr)
          /\ pv' = [op |-> "LmdbSpan",
                    sp |-> Span([i \in 1..(ptr + n * T.size) |-> i], ptr, n, T.size)]
    /\ UNCHANGED dbvars

\* sp.asSpan<TNew>()
Span_asSpan ==
    /\ pv.op = "LmdbSpan"
    /\ \E TNew \in SpanTypes :
          pv' = [op |-> "asSpan", sp |-> pv.sp, TNew |-> TNew, res |-> asSpan(pv.sp, TNew)]
    /\ UNCHANGED dbvars

\* The size_t arguments a caller passes: in and just out of bounds, and
\* SIZE_MAX and SIZE_MAX - 1
SizeSamples == (0..(MaxCount + 1)) \cup {-1, -2}

\* sp.subSpan(offset, count)
Span_subSpan ==
    /\ pv.op = "LmdbSpan"
    /\ \E offset \in SizeSamples, count \in SizeSamples :
          pv' = [op |-> "subSpan", sp |-> pv.sp, offset |-> offset, count |-> count,
                 res |-> subSpan(pv.sp, offset, count)]
    /\ UNCHANGED dbvars

\* sp[n]
Span_index ==
    /\ pv.op = "LmdbSpan"
    /\ \E n \in SizeSamples :
          pv' = [op |-> "operator[]", sp |-> pv.sp, n |-> n, res |-> operator_index(pv.sp, n)]
    /\ UNCHANGED dbvars

InitPure ==
    /\ m_api \in {i \in Instantiations : i.api = "MapDB_Pod_Pod"}
    /\ InitDb
    /\ pv = NoPure

NextPure ==
    \/ Padded_construct
    \/ Padded_cget
    \/ Span_construct
    \/ Span_asSpan
    \/ Span_subSpan
    \/ Span_index

SpecPure == InitPure /\ [][NextPure]_vars

\* ------------------------------------------------ interleaved transactions
\* The single-valued maps used through MaxTxns transaction handles that
\* are live at once, all calls on the self test's key 123
InitTxn ==
    /\ m_api \in SingleValued
    /\ InitDb
    /\ pv = NoPure

OnTxnKey == last.key = Obj(123, m_api.K.size)

NextTxn ==
    \/ \E t \in Slots : openWriteTxn(t)
    \/ \E t \in Slots : openReadTxn(t)
    \/ \E t \in Slots : commit(t)
    \/ \E t \in Slots : abort(t)
    \/ \E t \in Slots : Pod_Pod_put(t, FALSE) /\ OnTxnKey'
    \/ \E t \in Slots : Pod_Pod_get(t, FALSE) /\ OnTxnKey'
    \/ \E t \in Slots : AutoPadded_Pod_Pod_put(t, FALSE) /\ OnTxnKey'
    \/ \E t \in Slots : AutoPadded_Pod_Pod_get(t, FALSE) /\ OnTxnKey'

SpecTxn == InitTxn /\ [][NextTxn]_vars

\* --------------------------------------------------------- backend failures
\* One transaction at a time, with the environment free to fail any
\* mdb_put or mdb_get
InitFault ==
    /\ m_api \in {i \in Instantiations : i.api \in {"MapDB_AutoPadded_Pod_Pod", "MapDB_Pod_PodArray"}}
    /\ InitDb
    /\ pv = NoPure

NextFault ==
    \/ \E t \in SerialSlots : NoneLive /\ openWriteTxn(t)
    \/ \E t \in SerialSlots : NoneLive /\ openReadTxn(t)
    \/ \E t \in SerialSlots : commit(t)
    \/ \E t \in SerialSlots : abort(t)
    \/ \E t \in SerialSlots : AutoPadded_Pod_Pod_put(t, TRUE)
    \/ \E t \in SerialSlots : AutoPadded_Pod_Pod_get(t, TRUE)
    \/ \E t \in SerialSlots : Pod_PodArray_put(t, TRUE)
    \/ \E t \in SerialSlots : Pod_PodArray_get(t, TRUE)
    \/ \E t \in SerialSlots : Pod_PodArray_exists(t, TRUE)

SpecFault == InitFault /\ [][NextFault]_vars

\* ---------------------------------------------------------------- claims
IsArrayMap == m_api.api \in {"MapDB_Pod_PodArray", "MapDB_AutoPadded_Pod_PodArray"}

IsAutoPadded == m_api.api \in {"MapDB_AutoPadded_Pod_Pod", "MapDB_AutoPadded_Pod_PodArray"}

\* The value the program last put under the key of the last call, in the
\* view of the transaction that made the call
LastPut == CHOOSE v \in Expect(exp[last.t], last.key) : TRUE

HasLastPut == last.t \in Slots /\ Expect(exp[last.t], last.key) # {}

\* v followed by zero bytes up to the next multiple of 8
ZeroPadded(v) == v \o Zeros((((Len(v) + 7) \div 8) * 8) - Len(v))

\* The bytes a collection is expected to hold for a typed key and value
StoredKey(k) == IF IsAutoPadded THEN ZeroPadded(k) ELSE k

StoredElem(v) == IF IsAutoPadded THEN ZeroPadded(v) ELSE v

StoredVal(v) == IF IsArrayMap THEN Flatten([i \in 1..Len(v) |-> StoredElem(v[i])]) ELSE StoredElem(v)

\* C1: a get on a single-valued map (plain or AutoPadded), in a transaction
\* whose view holds a put of v under the key (committed before the
\* transaction opened, with no later put to the key), returns exactly v.
C1_RoundTrip ==
    (last.op = "get" /\ ~IsArrayMap /\ HasLastPut) => last.res = Ok(LastPut)

\* C1 witness: the self test's read: a read-only transaction reads 'a'
\* under key 123 through the AutoPadded map.
C1_Witness ==
    /\ last.op = "get" /\ m_api.api = "MapDB_AutoPadded_Pod_Pod"
    /\ txns[last.t].rdonly
    /\ last.key = Obj(123, 4) /\ last.res = Ok(<<97>>)

\* The elements of the span an array get returned, unwrapped where the map
\* is AutoPadded
Elements(sp) ==
    [i \in 1..sp.m_size |-> IF IsAutoPadded THEN cget(m_api.V, At(sp, i - 1)) ELSE At(sp, i - 1)]

\* C2: a get on an array map (plain or AutoPadded) after a put of N
\* elements returns a span of size N, counted in elements, whose i-th
\* element is (unwraps to) the i-th element put.
C2_ArrayRoundTrip ==
    (last.op = "get" /\ IsArrayMap /\ HasLastPut) =>
        /\ last.res.kind = "ok"
        /\ last.res.val.m_size = Len(LastPut)
        /\ last.res.val.esz = (IF IsAutoPadded THEN 8 ELSE m_api.V.size)
        /\ Elements(last.res.val) = LastPut

\* C2 witness: a read-only transaction reads back <<'a','b'>> through the
\* AutoPadded array map: size 2, second element 'b'.
C2_Witness ==
    /\ last.op = "get" /\ m_api.api = "MapDB_AutoPadded_Pod_PodArray"
    /\ txns[last.t].rdonly /\ last.res.kind = "ok"
    /\ last.res.val.m_size = 2
    /\ cget(char, At(last.res.val, 1)) = <<98>>

\* The last call returned the boolean b
Returned(b) == last.res.kind = "ok" /\ last.res.val = b

\* The last call raised an exception carrying rc
Raised(rc) == last.res.kind = "raise" /\ last.res.code = rc

\* C3 (as claimed): exists returns false for a key never written and true
\* for a key put in this or an earlier committed transaction, in read-only
\* and read-write transactions alike.
C3_Exists ==
    (last.op = "exists") =>
        /\ (last.key \notin written => Returned(FALSE))
        /\ (HasLastPut => Returned(TRUE))

\* C4 (as claimed): get for a key never written fails with not-found, and
\* exists for it returns false, in any transaction.
C4_NotFound ==
    /\ (last.op = "get" /\ last.key \notin written) => Raised(MDB_NOTFOUND)
    /\ (last.op = "exists" /\ last.key \notin written) => Returned(FALSE)

\* C5 (as claimed): asSpan from N elements of size s to elements of size
\* s2 succeeds exactly when N*s is a multiple of s2 and the pointer is
\* aligned for the new type, and the result has size N*s/s2, for every s.
C5_AsSpanSize ==
    (pv.op = "asSpan") =>
        LET N == pv.sp.m_size
            s == pv.sp.esz
            s2 == pv.TNew.size
        IN  /\ pv.res.ok <=> ((N * s) % s2 = 0 /\ is_aligned_for(pv.TNew, pv.sp.m_data))
            /\ pv.res.ok => pv.res.sp.m_size = (N * s) \div s2

\* C6: EightPadded<T>(v) reads back as v through get / cget / operator*,
\* every byte of the object at offset >= sizeof(T) is zero, and so the
\* object's bytes are determined by v alone (v followed by zeros).
C6_PaddedValue ==
    (pv.op \in {"EightPadded", "cget"}) =>
        /\ Len(pv.obj) = pv.sizeof
        /\ \A i \in (pv.T.size + 1)..pv.sizeof : pv.obj[i] = 0
        /\ pv.obj = pv.d \o Zeros(pv.sizeof - pv.T.size)
        /\ (pv.op = "cget") => pv.out = pv.d

\* C6 witness: the self test's EightPadded<char>{'c'}: *x is 'c', and the
\* seven bytes after it are zero though the storage held garbage.
C6_Witness ==
    /\ pv.op = "cget" /\ pv.T = char
    /\ pv.out = <<99>>
    /\ pv.obj = <<99, 0, 0, 0, 0, 0, 0, 0>>

SingleEntry(data) == \A e1, e2 \in data : e1.key = e2.key => e1 = e2

\* C8 (as claimed): put is an upsert: after a put that returned, the
\* collection holds exactly one entry under the key, holding exactly the
\* bytes just put (for an array its own length); a get then returns that
\* value, never an earlier one; no view holds two entries for one key.
C8_Upsert ==
    /\ (last.op = "put" /\ last.res.kind = "ok") =>
           {e \in txns[last.t].data : e.key = StoredKey(last.key)}
              = {[key |-> StoredKey(last.key), val |-> StoredVal(last.val)]}
    /\ (last.op = "get" /\ HasLastPut) =>
           /\ last.res.kind = "ok"
           /\ IF IsArrayMap THEN Elements(last.res.val) = LastPut ELSE last.res.val = LastPut
    /\ SingleEntry(committed.data)
    /\ \A t \in Slots : SingleEntry(txns[t].data)

\* What a transaction observes under a stored key: the bytes get returns
\* (none when get raises) and the answer of exists (none when it raises)
Seen(txn, k) ==
    LET g == DbiWrapper_get(txn, k, MDB_SUCCESS).res
        e == DbiWrapper_exists(txn, k, MDB_SUCCESS).res
    IN  [vals |-> IF g.kind = "ok"
                  THEN {SubSeq(g.val.mem, g.val.m_data + 1, g.val.m_data + g.val.m_size * g.val.esz)}
                  ELSE {},
         exists |-> IF e.kind = "ok" THEN e.val ELSE FALSE]

\* Everything a transaction observes, per typed key
View(txn) == [k \in KeySamples(m_api.K) |-> Seen(txn, StoredKey(k))]

\* What a set of typed writes looks like when observed
ViewOf(e) ==
    [k \in KeySamples(m_api.K) |->
        [vals |-> {StoredVal(v) : v \in Expect(e, k)}, exists |-> Expect(e, k) # {}]]

AtMostOneWriter == Cardinality({t \in Slots : Live(t) /\ ~txns[t].rdonly}) <= 1

\* Every live transaction observes exactly the writes committed before it
\* began together with its own puts; openReadTxn yields a read-only one
IsolatedViews ==
    /\ AtMostOneWriter
    /\ \A t \in Slots : Live(t) => View(txns[t]) = ViewOf(exp[t])
    /\ (last.op = "openReadTxn") => txns[last.t].rdonly

\* One step: a live transaction's observations change only by its own put
\* in a read-write transaction, a transaction that opens observes exactly
\* the committed writes, and only the commit of a read-write transaction
\* changes what is committed
IsolatedStep ==
    /\ \A t \in Slots :
          /\ (Live(t) /\ txns'[t].st = "live"
                /\ ~(last'.op = "put" /\ last'.t = t /\ ~txns[t].rdonly))
                => View(txns'[t]) = View(txns[t])
          /\ (~Live(t) /\ txns'[t].st = "live") => View(txns'[t]) = ViewOf(cexp)
    /\ (committed' # committed) =>
          /\ last'.op = "commit"
          /\ ~txns[last'.t].rdonly
          /\ committed'.data = txns[last'.t].data

\* C9: transaction isolation under interleaving: a read-only transaction
\* never observes (via get or exists) a write committed after it began, a
\* put is visible to another transaction only if that one opened after the
\* writer committed, an aborted write is never visible, and at most one
\* read-write transaction is live while readers run beside it.
C9_Isolation == [](IsolatedViews) /\ [][IsolatedStep]_vars

\* C9 witness: a reader that began before a commit still observes the old
\* state, beside a live writer holding a put it has not committed.
C9_Witness ==
    \E r, w \in Slots :
        /\ Live(r) /\ txns[r].rdonly
        /\ Live(w) /\ ~txns[w].rdonly
        /\ cexp # {}
        /\ View(txns[r]) # ViewOf(cexp)
        /\ View(txns[w]) # ViewOf(cexp)
        /\ View(txns[w]) # View(txns[r])

Failed(rcs) == \E i \in 1..Len(rcs) : rcs[i] # MDB_SUCCESS

\* C10: backend failures are never swallowed or retried: put, putArray and
\* get raise the first nonzero backend code and make no further backend
\* call; exists returns false only for the not-found code, true only for
\* success, and raises every other code; no call returns normally after a
\* backend failure.
C10_Propagation ==
    /\ (last.op \in {"put", "get"} /\ last.res.kind # "abort") =>
          /\ Len(last.rcs) <= 2
          /\ Failed(last.rcs) <=> last.res.kind = "raise"
          /\ Failed(last.rcs) =>
                /\ Raised(last.rcs[Len(last.rcs)])
                /\ \A i \in 1..(Len(last.rcs) - 1) : last.rcs[i] = MDB_SUCCESS
    /\ (last.op = "exists") =>
          /\ Returned(FALSE) => last.rcs = <<MDB_SUCCESS, MDB_NOTFOUND, MDB_SUCCESS>>
          /\ Returned(TRUE) => last.rcs = <<MDB_SUCCESS, MDB_SUCCESS, MDB_SUCCESS>>
          /\ (\E i \in 1..Len(last.rcs) : last.rcs[i] \notin {MDB_SUCCESS, MDB_NOTFOUND}) =>
                /\ last.res.kind = "raise"
                /\ last.res.code \notin {MDB_SUCCESS, MDB_NOTFOUND}
                /\ \E i \in 1..Len(last.rcs) : last.rcs[i] = last.res.code

\* C10 witness: mdb_get fails inside exists with a code that is neither
\* success nor not-found, and exists raises that code.
C10_Witness ==
    /\ last.op = "exists"
    /\ last.rcs = <<MDB_SUCCESS, MDB_PAGE_NOTFOUND, MDB_SUCCESS>>
    /\ Raised(MDB_PAGE_NOTFOUND)

\* sizeof of the value type the single-valued map in use stores
StoredValSize == IF IsAutoPadded THEN EightPaddedSize(m_api.V) ELSE m_api.V.size

\* The values the last call's transaction holds under the last call's key
UnderKey == {e.val : e \in {x \in txns[last.t].data : x.key = StoredKey(last.key)}}

\* C11: get on a single-valued map returns a value only when the stored
\* byte length is exactly sizeof(Value), and then that value; when the
\* entry under the key has any other length (an array of 0 or of 2 or more
\* elements put under the same collection name) the call stops the process
\* on a failed assertion: it returns no value and raises no error.
C11_ExactSize ==
    (last.op = "get" /\ ~IsArrayMap) =>
        /\ (last.res.kind = "ok") =>
              \E v \in UnderKey : Len(v) = StoredValSize /\ v = StoredElem(last.res.val)
        /\ (UnderKey # {} /\ \A v \in UnderKey : Len(v) # StoredValSize) =>
              last.res.kind = "abort"

\* C11 witness: a get through the AutoPadded single-valued map of a key
\* under which the array map put two elements stops the process.
C11_Witness ==
    /\ last.op = "get" /\ m_api.api = "MapDB_AutoPadded_Pod_Pod"
    /\ last.res.kind = "abort"
    /\ \E v \in UnderKey : Len(v) = 16

\* C12 (as claimed): subSpan(offset, count) yields a view exactly when
\* offset + count <= size() as mathematical integers, and the view then
\* starts at element offset, has size count and lies inside the original;
\* every other pair, a pair whose machine-word sum wraps around included,
\* is rejected.  Element access by index n is accepted exactly for
\* n < size().
C12_SubSpanBounds ==
    /\ (pv.op = "subSpan") =>
          LET inBounds == pv.offset >= 0 /\ pv.count >= 0 /\ pv.offset + pv.count <= pv.sp.m_size
          IN  /\ pv.res.ok <=> inBounds
              /\ pv.res.ok =>
                    /\ pv.res.sp.m_data = pv.sp.m_data + pv.offset * pv.sp.esz
                    /\ pv.res.sp.m_size = pv.count
                    /\ pv.res.sp.m_data >= pv.sp.m_data
                    /\ pv.res.sp.m_data + pv.count * pv.sp.esz
                          <= pv.sp.m_data + pv.sp.m_size * pv.sp.esz
    /\ (pv.op = "operator[]") => (pv.res.ok <=> (pv.n >= 0 /\ pv.n < pv.sp.m_size))

\* C13 (as claimed): constructing a map touches nothing in the store; a
\* collection absent from the environment is created by the first put and
\* by nothing else, so while no put has returned the collection exists
\* neither in the environment nor in any transaction, whatever gets and
\* exists calls were made; and a read-only transaction on a collection
\* that does not exist yet is usable: get answers not-found, exists false.
C13_Lifecycle ==
    /\ (last.op = "none") => committed = NoEnv
    /\ (written = {}) =>
          /\ ~committed.exists
          /\ \A t \in Slots : ~txns[t].exists
    /\ (last.op = "get" /\ txns[last.t].rdonly /\ ~committed.exists) => Raised(MDB_NOTFOUND)
    /\ (last.op = "exists" /\ txns[last.t].rdonly /\ ~committed.exists) => Returned(FALSE)

====
